---- MODULE Spec2Model ----
(***************************************************************************)
(* The four portlets of lfc_portlets/models.py and their render methods.   *)
(*                                                                         *)
(* State: the BaseContent table (catalog, in the default order of the      *)
(* manager), one stored instance of each portlet class, and the last call  *)
(* a render method made to render_to_string (rendered).                    *)
(*                                                                         *)
(* A content object carries what the render methods read from it: its      *)
(* language, its tags, and the answers of lfc.utils.registration.get_info, *)
(* has_permission(user, "view") and is_active(user) for each user          *)
(* (viewers, active_for).  A tags field is the sequence of tag names the   *)
(* comma separated string lists; the empty string is << >>.  A text is the *)
(* sequence of its tokens, markup tags among them.  A request is the       *)
(* request of the render context together with the language that is        *)
(* active while it is served.                                              *)
(***************************************************************************)
EXTENDS Integers, Sequences, FiniteSets, TLC

VARIABLES catalog, navigation, content, random, text, rendered

vars == <<catalog, navigation, content, random, text, rendered>>

----------------------------------------------------------------------------
(* Bounds of the model *)

MaxCatalog == 2
MaxLimit == 2
MaxLevel == 3
MaxText == 3

TagNames == {"x", "y"}
ItemLanguages == {"0", "en"}
ActiveLanguages == {"en", "de"}
Users == {"user"}
Titles == {"", "News", "<i>Menu</i>"}
Tokens == {"a", "<b>"}

TagFields == {<<>>, <<"x">>, <<"y">>, <<"x", "y">>, <<"y", "x">>, <<"x", "x">>}
Texts == UNION {[1..n -> Tokens] : n \in 0..MaxText}

ContentObjects ==
    [language : ItemLanguages, tags : SUBSET TagNames,
     info : BOOLEAN, viewers : SUBSET Users, active_for : SUBSET Users]

\* the table holding the rows objs, in the order given, each row with its primary key
Table(objs) ==
    [i \in 1..Len(objs) |-> [id |-> i, language |-> objs[i].language, tags |-> objs[i].tags,
                             info |-> objs[i].info, viewers |-> objs[i].viewers,
                             active_for |-> objs[i].active_for]]

Requests == [user : Users, language : ActiveLanguages]

----------------------------------------------------------------------------
(* Field defaults of the model classes *)

NavigationDefault == [title |-> "", start_level |-> 1, expand_level |-> 0]
ContentDefault == [title |-> "", limit |-> 5, tags |-> <<>>]
RandomDefault == [title |-> "", limit |-> 1, tags |-> <<>>]
TextDefault == [title |-> "", text |-> <<>>]

NoRender == [portlet |-> "none"]

----------------------------------------------------------------------------
(* Collaborators, as the render methods use them *)

Min(a, b) == IF a <= b THEN a ELSE b

\* a slice that keeps one element too many
Slice_OneMore(s, n) == SubSeq(s, 1, Min(n + 1, Len(s)))

\* qs[:n] on a queryset or a list
Slice(s, n) == SubSeq(s, 1, Min(n, Len(s)))

Range(s) == {s[i] : i \in 1..Len(s)}

\* BaseContent.objects.filter(language__in=("0", translation.get_language()))
language_filter(qs, language) ==
    SelectSeq(qs, LAMBDA obj : obj.language \in {"0", language})

\* the tag names a tags field lists
parse_tag_input(tags) == Range(tags)

\* the objects of qs carrying at least one of the tags
with_any(tags, qs) ==
    SelectSeq(qs, LAMBDA obj : parse_tag_input(tags) \cap obj.tags # {})

\* ModelTaggedItemManager().with_all(tags, qs): the objects of qs carrying every tag
with_all(tags, qs) ==
    SelectSeq(qs, LAMBDA obj : parse_tag_input(tags) \subseteq obj.tags)

get_info(obj) == obj.info
has_permission(obj, user) == user \in obj.viewers
is_active(obj, user) == user \in obj.active_for

\* a draw with replacement: an element may come twice
Shuffles_WithReplacement(s) ==
    {[i \in 1..Len(s) |-> s[p[i]]] : p \in [1..Len(s) -> 1..Len(s)]}

\* every order random.shuffle can leave a list in
Shuffles(s) ==
    {[i \in 1..Len(s) |-> s[p[i]]] :
        p \in {q \in [1..Len(s) -> 1..Len(s)] : \A i, j \in 1..Len(s) : q[i] = q[j] => i = j}}

\* RequestContext(request, dict)
RequestContext(request, dict) == [request |-> request, dict |-> dict]

----------------------------------------------------------------------------
(* NavigationPortlet *)

\* the two levels forwarded under each other's name
NavigationPortlet_render_Swapped(self, request) ==
    [portlet |-> "navigation",
     request |-> request,
     template |-> "lfc/portlets/navigation_portlet.html",
     context |-> RequestContext(request,
                    [start_level |-> self.expand_level,
                     expand_level |-> self.start_level,
                     title |-> self.title])]

NavigationPortlet_render(self, request) ==
    [portlet |-> "navigation",
     request |-> request,
     template |-> "lfc/portlets/navigation_portlet.html",
     context |-> RequestContext(request,
                    [start_level |-> self.start_level,
                     expand_level |-> self.expand_level,
                     title |-> self.title])]

RenderNavigation ==
    \E request \in Requests :
        /\ rendered' = NavigationPortlet_render(navigation, request)
        /\ UNCHANGED <<catalog, navigation, content, random, text>>

----------------------------------------------------------------------------
(* ContentPortlet *)

\* temp: the language filter, the tag filter and the slice
ContentPortlet_temp(self, request) ==
    LET temp == language_filter(catalog, request.language)
    IN  IF self.tags # <<>>
        THEN Slice(with_all(self.tags, temp), self.limit)
        ELSE Slice(temp, self.limit)

\* the loop without the permission check
ContentPortlet_objs_NoPermission(temp, request) ==
    SelectSeq(temp, LAMBDA obj : get_info(obj) /\ is_active(obj, request.user))

\* objs: the loop over temp
ContentPortlet_objs(temp, request) ==
    SelectSeq(temp, LAMBDA obj :
        get_info(obj) /\ has_permission(obj, request.user) /\ is_active(obj, request.user))

\* the slice taken after the loop instead of before it
ContentPortlet_render_FilterThenCap(self, request) ==
    [portlet |-> "content",
     request |-> request,
     template |-> "lfc/portlets/content_portlet.html",
     context |-> [title |-> self.title,
                  objs |-> LET temp == language_filter(catalog, request.language)
                               all == IF self.tags # <<>>
                                      THEN with_all(self.tags, temp) ELSE temp
                           IN  Slice(ContentPortlet_objs(all, request), self.limit)]]

ContentPortlet_render(self, request) ==
    [portlet |-> "content",
     request |-> request,
     template |-> "lfc/portlets/content_portlet.html",
     context |-> [title |-> self.title,
                  objs |-> ContentPortlet_objs(ContentPortlet_temp(self, request), request)]]

RenderContent ==
    \E request \in Requests :
        /\ rendered' = ContentPortlet_render(content, request)
        /\ UNCHANGED <<catalog, navigation, content, random, text>>

----------------------------------------------------------------------------
(* RandomPortlet *)

\* the candidates filtered as ContentPortlet filters its objects
RandomPortlet_items_Checked(self, request) ==
    LET items == language_filter(catalog, request.language)
        tagged == IF self.tags # <<>>
                  THEN Slice(with_all(self.tags, items), self.limit)
                  ELSE items
    IN  ContentPortlet_objs(tagged, request)

\* items = list(items): what random.shuffle is given
RandomPortlet_items(self, request) ==
    LET items == language_filter(catalog, request.language)
    IN  IF self.tags # <<>>
        THEN Slice(with_all(self.tags, items), self.limit)
        ELSE items

\* shuffled: items after random.shuffle(items)
RandomPortlet_render(self, request, shuffled) ==
    [portlet |-> "random",
     request |-> request,
     shuffled |-> shuffled,
     template |-> "lfc/portlets/random_portlet.html",
     context |-> [title |-> self.title,
                  items |-> Slice(shuffled, self.limit)]]

\* the shuffle done on the table itself
RenderRandom_InPlace ==
    \E request \in Requests :
        \E shuffled \in Shuffles(RandomPortlet_items(random, request)) :
            /\ rendered' = RandomPortlet_render(random, request, shuffled)
            /\ catalog' = IF Len(shuffled) = Len(catalog) THEN shuffled ELSE catalog
            /\ UNCHANGED <<navigation, content, random, text>>

RenderRandom ==
    \E request \in Requests :
        \E shuffled \in Shuffles(RandomPortlet_items(random, request)) :
            /\ rendered' = RandomPortlet_render(random, request, shuffled)
            /\ UNCHANGED <<catalog, navigation, content, random, text>>

----------------------------------------------------------------------------
(* TextPortlet *)

\* the text with its markup tags stripped
TextPortlet_render_StripTags(self, request) ==
    [portlet |-> "text",
     request |-> request,
     template |-> "lfc/portlets/text_portlet.html",
     context |-> [title |-> self.title,
                  text |-> SelectSeq(self.text, LAMBDA tok : tok # "<b>")]]

TextPortlet_render(self, request) ==
    [portlet |-> "text",
     request |-> request,
     template |-> "lfc/portlets/text_portlet.html",
     context |-> [title |-> self.title, text |-> self.text]]

RenderText ==
    \E request \in Requests :
        /\ rendered' = TextPortlet_render(text, request)
        /\ UNCHANGED <<catalog, navigation, content, random, text>>

----------------------------------------------------------------------------
(* Specifications *)

InitNavigation ==
    /\ catalog = <<>>
    /\ navigation \in [title : Titles, start_level : 0..MaxLevel, expand_level : 0..MaxLevel]
    /\ content = ContentDefault
    /\ random = RandomDefault
    /\ text = TextDefault
    /\ rendered = NoRender

InitContent ==
    /\ \E n \in 0..MaxCatalog : \E objs \in [1..n -> ContentObjects] : catalog = Table(objs)
    /\ navigation = NavigationDefault
    /\ content \in [title : {""}, limit : 0..MaxLimit, tags : TagFields]
    /\ random = RandomDefault
    /\ text = TextDefault
    /\ rendered = NoRender

InitRandom ==
    /\ \E n \in 0..MaxCatalog : \E objs \in [1..n -> ContentObjects] : catalog = Table(objs)
    /\ navigation = NavigationDefault
    /\ content = ContentDefault
    /\ random \in [title : {""}, limit : 0..MaxLimit, tags : TagFields]
    /\ text = TextDefault
    /\ rendered = NoRender

InitText ==
    /\ catalog = <<>>
    /\ navigation = NavigationDefault
    /\ content = ContentDefault
    /\ random = RandomDefault
    /\ text \in [title : Titles, text : Texts]
    /\ rendered = NoRender

Init == InitNavigation \/ InitContent \/ InitRandom \/ InitText

Next == RenderNavigation \/ RenderContent \/ RenderRandom \/ RenderText

Spec == Init /\ [][Next]_vars

SpecContent == InitContent /\ [][RenderContent]_vars

SpecRandom == InitRandom /\ [][RenderRandom]_vars

SpecNavigation == InitNavigation /\ [][RenderNavigation]_vars

SpecText == InitText /\ [][RenderText]_vars

----------------------------------------------------------------------------
(* Vocabulary of the properties *)

InLanguage(obj, language) == obj.language = "0" \/ obj.language = language

CarriesAll(obj, tags) == \A i \in 1..Len(tags) : tags[i] \in obj.tags

Qualifies(obj, user) == obj.info /\ user \in obj.viewers /\ user \in obj.active_for

\* the catalog entries of the request's language that carry every tag of the field
Matching(request, tags) ==
    SelectSeq(catalog, LAMBDA obj : InLanguage(obj, request.language) /\ CarriesAll(obj, tags))

\* the first n entries of s
FirstN(s, n) == [i \in 1..(IF n < Len(s) THEN n ELSE Len(s)) |-> s[i]]

Distinct(s) == \A i, j \in 1..Len(s) : s[i] = s[j] => i = j

Elements(s) == {s[i] : i \in 1..Len(s)}

----------------------------------------------------------------------------
(* Properties *)

\* C1: the objs ContentPortlet.render hands to the template are exactly those of
\* the first `limit` entries of the language- and tag-filtered catalog that pass
\* the registration lookup, the permission check and the active check, in
\* catalog order.
C1_CapBeforeFilter ==
    rendered.portlet = "content" =>
        rendered.context.objs =
            SelectSeq(FirstN(Matching(rendered.request, content.tags), content.limit),
                      LAMBDA obj : Qualifies(obj, rendered.request.user))

\* C1 witness: limit 1, the first matching entry fails the permission check, a
\* later one passes every check, and objs is empty.
C1_Witness ==
    /\ rendered.portlet = "content"
    /\ content.limit = 1
    /\ Len(Matching(rendered.request, content.tags)) = 2
    /\ ~ (rendered.request.user \in Matching(rendered.request, content.tags)[1].viewers)
    /\ Qualifies(Matching(rendered.request, content.tags)[2], rendered.request.user)
    /\ rendered.context.objs = <<>>

\* C2: every object in ContentPortlet.render's objs has a registration info, is
\* view-permitted for the requesting user and is active for that user.
C2_OnlyQualifying ==
    rendered.portlet = "content" =>
        \A i \in 1..Len(rendered.context.objs) :
            /\ rendered.context.objs[i].info
            /\ rendered.request.user \in rendered.context.objs[i].viewers
            /\ rendered.request.user \in rendered.context.objs[i].active_for

\* C2 witness: two entries tagged x, the first permitted and the second not, the
\* tags field "x", a limit beyond both: objs is the first entry alone.
C2_Witness ==
    /\ rendered.portlet = "content"
    /\ content.tags = <<"x">>
    /\ content.limit = 2
    /\ Len(Matching(rendered.request, content.tags)) = 2
    /\ Qualifies(Matching(rendered.request, content.tags)[1], rendered.request.user)
    /\ Matching(rendered.request, content.tags)[2].info
    /\ rendered.request.user \in Matching(rendered.request, content.tags)[2].active_for
    /\ ~ (rendered.request.user \in Matching(rendered.request, content.tags)[2].viewers)
    /\ rendered.context.objs = <<Matching(rendered.request, content.tags)[1]>>

\* C3: every object in ContentPortlet.render's objs is an entry of the catalog
\* whose language is "0" or the active language and, when the tags field is not
\* empty, whose tags include every tag the field lists.
C3_LanguageAndAllTags ==
    rendered.portlet = "content" =>
        \A i \in 1..Len(rendered.context.objs) :
            /\ rendered.context.objs[i] \in Elements(catalog)
            /\ rendered.context.objs[i].language \in {"0", rendered.request.language}
            /\ \A t \in Elements(content.tags) : t \in rendered.context.objs[i].tags

\* C3 witness: the field lists x and y, one qualifying entry carries x alone and
\* one carries both, and objs is the second.
C3_Witness ==
    /\ rendered.portlet = "content"
    /\ content.tags = <<"x", "y">>
    /\ content.limit = 2
    /\ Len(catalog) = 2
    /\ catalog[1].tags = {"x"}
    /\ catalog[2].tags = {"x", "y"}
    /\ Qualifies(catalog[1], rendered.request.user)
    /\ InLanguage(catalog[1], rendered.request.language)
    /\ rendered.context.objs = <<catalog[2]>>

\* C4: neither ContentPortlet.render nor RandomPortlet.render hands more than
\* `limit` objects to the template; with limit 0 both hand the empty sequence.
C4_AtMostLimit ==
    /\ rendered.portlet = "content" =>
          /\ Len(rendered.context.objs) <= content.limit
          /\ content.limit = 0 => rendered.context.objs = <<>>
    /\ rendered.portlet = "random" =>
          /\ Len(rendered.context.items) <= random.limit
          /\ random.limit = 0 => rendered.context.items = <<>>

\* C4 witness: RandomPortlet with limit 0 rendered over a catalog with entries of
\* the active language: items is empty.
C4_Witness ==
    /\ rendered.portlet = "random"
    /\ random.limit = 0
    /\ Len(Matching(rendered.request, random.tags)) >= 1
    /\ rendered.context.items = <<>>

\* C5: RandomPortlet.render's items are distinct entries of the language- and
\* tag-filtered catalog, at most `limit` of them; when limit is at least the size
\* of the filtered catalog every filtered entry is among them exactly once.
C5_SubsetAndPermutation ==
    rendered.portlet = "random" =>
        /\ Distinct(rendered.context.items)
        /\ Elements(rendered.context.items) \subseteq Elements(Matching(rendered.request, random.tags))
        /\ Len(rendered.context.items) <= random.limit
        /\ random.limit >= Len(Matching(rendered.request, random.tags)) =>
              /\ Len(rendered.context.items) = Len(Matching(rendered.request, random.tags))
              /\ Elements(rendered.context.items) = Elements(Matching(rendered.request, random.tags))

\* C5 witness: two filtered entries, a limit of two, and items holds them in the
\* order opposite to the catalog's.
C5_Witness ==
    /\ rendered.portlet = "random"
    /\ random.limit = 2
    /\ Len(Matching(rendered.request, random.tags)) = 2
    /\ rendered.context.items = <<Matching(rendered.request, random.tags)[2],
                                  Matching(rendered.request, random.tags)[1]>>

\* C6: with a non-empty tags field RandomPortlet.render shuffles the full
\* sequence of language-matching entries carrying every listed tag: no cap comes
\* before the shuffle.
C6_NoCapBeforeShuffle ==
    (rendered.portlet = "random" /\ random.tags # <<>>) =>
        Elements(rendered.shuffled) = Elements(Matching(rendered.request, random.tags))

\* C7: RandomPortlet.render filters by no check: when the limit covers the
\* filtered catalog, every filtered entry is among its items, also one that has
\* no registration info, is not view-permitted or is not active for the user;
\* no such entry is ever among ContentPortlet.render's objs.
C7_RandomUnchecked ==
    /\ (rendered.portlet = "random"
        /\ random.limit >= Len(Matching(rendered.request, random.tags))) =>
          \A obj \in Elements(Matching(rendered.request, random.tags)) :
              ~ Qualifies(obj, rendered.request.user) => obj \in Elements(rendered.context.items)
    /\ rendered.portlet = "content" =>
          \A obj \in Elements(catalog) :
              ~ Qualifies(obj, rendered.request.user) => obj \notin Elements(rendered.context.objs)

\* C7 witness: RandomPortlet.render's items hold an entry that is not
\* view-permitted for the requesting user.
C7_Witness ==
    /\ rendered.portlet = "random"
    /\ \E i \in 1..Len(rendered.context.items) :
          /\ ~ (rendered.request.user \in rendered.context.items[i].viewers)
          /\ rendered.context.items[i].info
          /\ rendered.request.user \in rendered.context.items[i].active_for

\* C8: the text TextPortlet.render hands to the template is the stored text,
\* token for token, and a second render hands over the same context as the first.
C8_TextVerbatim ==
    [][rendered'.portlet = "text" =>
          /\ rendered'.context.text = text.text
          /\ rendered'.context.title = text.title
          /\ rendered.portlet = "text" => rendered'.context = rendered.context]_vars

\* C8 witness: a stored text holding a markup tag has been rendered, tag included.
C8_Witness ==
    /\ rendered.portlet = "text"
    /\ Len(text.text) = 2
    /\ text.text[1] = "<b>"
    /\ rendered.context.text = text.text

\* C9 as stated: what NavigationPortlet.render hands to the template is the same
\* for every request, the stored fields being equal.
C9_SameForEveryRequest ==
    rendered.portlet = "navigation" =>
        \A request \in Requests :
            /\ NavigationPortlet_render(navigation, request).template = rendered.template
            /\ NavigationPortlet_render(navigation, request).context = rendered.context

\* C9 amended: the variables NavigationPortlet.render supplies are exactly the
\* stored start_level, expand_level and title, whatever the request; the request
\* of the render context is handed to the template with them, unchanged.
C9_ForwardsFieldsAndRequest ==
    rendered.portlet = "navigation" =>
        /\ rendered.template = "lfc/portlets/navigation_portlet.html"
        /\ rendered.context.dict = [start_level |-> navigation.start_level,
                                    expand_level |-> navigation.expand_level,
                                    title |-> navigation.title]
        /\ rendered.context.request = rendered.request
        /\ \A request \in Requests :
              NavigationPortlet_render(navigation, request).context.dict = rendered.context.dict

\* C9 witness: a NavigationPortlet with a title and two different levels has been
\* rendered.
C9_Witness ==
    /\ rendered.portlet = "navigation"
    /\ navigation.start_level = 2
    /\ navigation.expand_level = 1
    /\ navigation.title = "News"
    /\ rendered.context.dict.start_level = 2

\* C10: no render changes a stored field of a portlet or the catalog.
C10_RenderReadOnly ==
    [][/\ catalog' = catalog
       /\ navigation' = navigation
       /\ content' = content
       /\ random' = random
       /\ text' = text]_vars

\* C10 witness: RandomPortlet.render has shuffled the whole catalog of two
\* entries into the opposite order, and the catalog is in its own order still.
C10_Witness ==
    /\ rendered.portlet = "random"
    /\ Len(catalog) = 2
    /\ catalog[1].id = 1
    /\ catalog[2].id = 2
    /\ Len(rendered.shuffled) = 2
    /\ rendered.shuffled[1].id = 2

====
